---- MODULE Spec2Model ----
(***************************************************************************)
(* A model of app.py: the Flask routes of the user CRUD API, the response  *)
(* envelope, the HTML-form proxies, and the mock store they call.          *)
(*                                                                         *)
(* A Python str is a sequence of one-character strings, so that strip()    *)
(* and int() are computed rather than assumed.  A dict is a record; a form *)
(* is a record whose DOMAIN is the set of fields the request carries.      *)
(* A handler is an operator from (store, request) to [db, resp]; an action *)
(* applies one handler to one request.  An exception that leaves a handler *)
(* is Flask's 500 error page; the store keeps what was written before it.  *)
(***************************************************************************)
EXTENDS Integers, Sequences, FiniteSets, TLC

\* The number of ids the store hands out before the model stops creating.
MaxId == 2

(***************************************************************************)
(* Python strings                                                          *)
(***************************************************************************)
Digits == <<"0", "1", "2", "3", "4", "5", "6", "7", "8", "9">>

IsDigit(c) == \E i \in 1..10 : Digits[i] = c

DigitVal(c) == (CHOOSE i \in 1..10 : Digits[i] = c) - 1

\* The whitespace of str.strip() and int(); the model's inputs use the space.
IsSpace(c) == c \in {" ", "\t", "\n", "\r"}

RECURSIVE LStrip(_)
LStrip(s) == IF s # <<>> /\ IsSpace(Head(s)) THEN LStrip(Tail(s)) ELSE s

RECURSIVE RStrip(_)
RStrip(s) ==
    IF s # <<>> /\ IsSpace(s[Len(s)]) THEN RStrip(SubSeq(s, 1, Len(s) - 1)) ELSE s

\* Strip as a slip would have it: nothing is trimmed.
Strip_Nothing(s) == s

\* str.strip()
Strip(s) == RStrip(LStrip(s))

RECURSIVE DigitsValue(_)
DigitsValue(s) ==
    IF s = <<>> THEN 0
    ELSE IF s[Len(s)] = "_" THEN DigitsValue(SubSeq(s, 1, Len(s) - 1))
    ELSE 10 * DigitsValue(SubSeq(s, 1, Len(s) - 1)) + DigitVal(s[Len(s)])

\* The body of a decimal literal: digits, with single underscores between them.
IsDecimal(s) ==
    /\ s # <<>>
    /\ IsDigit(s[1])
    /\ IsDigit(s[Len(s)])
    /\ \A i \in 1..Len(s) : IsDigit(s[i]) \/ s[i] = "_"
    /\ \A i \in 1..(Len(s) - 1) : ~(s[i] = "_" /\ s[i + 1] = "_")

\* int() as a slip would have it: surrounding whitespace is not accepted.
IntParse_NoTrim(s) ==
    LET signed == s # <<>> /\ s[1] \in {"+", "-"}
        body == IF signed THEN Tail(s) ELSE s
    IN  IF IsDecimal(body)
        THEN [ok |-> TRUE,
              val |-> IF signed /\ s[1] = "-" THEN 0 - DigitsValue(body)
                      ELSE DigitsValue(body)]
        ELSE [ok |-> FALSE, val |-> 0]

\* int(s) of a str: [ok |-> FALSE] stands for ValueError.
IntParse(s) ==
    LET t == Strip(s)
        signed == t # <<>> /\ t[1] \in {"+", "-"}
        body == IF signed THEN Tail(t) ELSE t
    IN  IF IsDecimal(body)
        THEN [ok |-> TRUE,
              val |-> IF signed /\ t[1] = "-" THEN 0 - DigitsValue(body)
                      ELSE DigitsValue(body)]
        ELSE [ok |-> FALSE, val |-> 0]

RECURSIVE NatToStr(_)
NatToStr(n) ==
    IF n < 10 THEN <<Digits[n + 1]>>
    ELSE NatToStr(n \div 10) \o <<Digits[(n % 10) + 1]>>

\* str(n) of an int
IntToStr(n) == IF n < 0 THEN <<"-">> \o NatToStr(0 - n) ELSE NatToStr(n)

(***************************************************************************)
(* URLs: url_for quotes the id into the path, the router unquotes it.      *)
(***************************************************************************)
RECURSIVE UrlQuote(_)
UrlQuote(s) ==
    IF s = <<>> THEN <<>>
    ELSE (CASE Head(s) = " " -> <<"%", "2", "0">>
            [] Head(s) = "%" -> <<"%", "2", "5">>
            [] OTHER -> <<Head(s)>>) \o UrlQuote(Tail(s))

RECURSIVE UrlUnquote(_)
UrlUnquote(s) ==
    IF s = <<>> THEN <<>>
    ELSE IF Len(s) >= 3 /\ SubSeq(s, 1, 3) = <<"%", "2", "0">>
         THEN <<" ">> \o UrlUnquote(SubSeq(s, 4, Len(s)))
    ELSE IF Len(s) >= 3 /\ SubSeq(s, 1, 3) = <<"%", "2", "5">>
         THEN <<"%">> \o UrlUnquote(SubSeq(s, 4, Len(s)))
    ELSE <<Head(s)>> \o UrlUnquote(Tail(s))

(***************************************************************************)
(* The mock store (mockdb.mockdb_interface), as the specification gives    *)
(* it: a table of user records in insertion order and a counter of ids.    *)
(***************************************************************************)
None == [none |-> TRUE]

EmptyDb == [users |-> <<>>, next_id |-> 1]

Ids(d) == {d.users[i].id : i \in 1..Len(d.users)}

\* db.get("users")
DbGet(d) == d.users

\* db.getById("users", id): the record, or None
DbGetById(d, id) ==
    IF id \in Ids(d)
    THEN d.users[CHOOSE i \in 1..Len(d.users) : d.users[i].id = id]
    ELSE None

\* create as a slip would have it: the id is the size of the table plus one.
DbCreate_BySize(d, payload) ==
    LET rec == [id |-> Len(d.users) + 1, name |-> payload.name,
                age |-> payload.age, team |-> payload.team]
    IN  [db |-> [users |-> Append(d.users, rec), next_id |-> d.next_id + 1],
         rec |-> rec]

\* db.create("users", payload): [db, rec], rec the payload with its new id
DbCreate(d, payload) ==
    LET rec == [id |-> d.next_id, name |-> payload.name, age |-> payload.age,
                team |-> payload.team]
    IN  [db |-> [users |-> Append(d.users, rec), next_id |-> d.next_id + 1],
         rec |-> rec]

\* db.updateById("users", id, values): merges the given fields, in place
DbUpdateById(d, id, values) ==
    [d EXCEPT !.users =
        [i \in 1..Len(d.users) |->
            IF d.users[i].id = id
            THEN [k \in DOMAIN d.users[i] |->
                    IF k \in DOMAIN values /\ k # "id" THEN values[k]
                    ELSE d.users[i][k]]
            ELSE d.users[i]]]

\* db.deleteById("users", id)
DbDeleteById(d, id) ==
    LET keep(u) == u.id # id
    IN  [d EXCEPT !.users = SelectSeq(d.users, keep)]

\* db.getUsersByTeam(team): linear scan, string equality
DbGetUsersByTeam(d, team) ==
    LET same(u) == u.team = team
    IN  SelectSeq(d.users, same)


(***************************************************************************)
(* Responses                                                               *)
(***************************************************************************)
\* An exception that leaves a view function: Flask answers with its 500 page.
Raise(exc) == [status |-> 500, body |-> [error |-> exc]]

\* An HTTP error Flask raises itself (a missing form key is a 400 page).
Abort(status) == [status |-> status, body |-> [error |-> "HTTPException"]]

\* render_template(name)
RenderTemplate(name) == [status |-> 200, body |-> [template |-> name]]

\* type(data): the handlers pass a dict or None
PyType(data) == IF data = None THEN "NoneType" ELSE "dict"

create_response(data, status, message) ==
    IF PyType(data) # "dict" /\ data # None
    THEN Raise("TypeError")
    ELSE [status |-> status,
          body |-> [code |-> status,
                    success |-> (200 <= status /\ status < 300),
                    message |-> message,
                    result |-> data]]

\* Messages: a literal is a one-element tuple, an f-string the tuple of its parts.
MsgCreateAge == <<"Cannot create new user because age is not a number">>
MsgCreateMissing ==
    <<"Cannot create new user because user name, age and/or team are missing">>
MsgNoUser == <<"There is no user associated with this id!">>
MsgUpdateAge == <<"Cannot update user because age is not a number">>
MsgCreated(id) == <<"user with id ", id, " has successfully been created">>
MsgUpdated(id) == <<"user with id ", id, " has successfully been updated">>
MsgDeleted(id) == <<"user with id ", id, " has successfully been deleted">>
MsgFiltered(team) == <<"Users filtered by team ", team>>
MsgBlankUpdate == <<"can't update user with blank id!">>
MsgBlankDelete == <<"can't delete user with blank id!">>
NoMsg == <<"">>

(***************************************************************************)
(* The REST handlers.  Each returns [db, resp].                            *)
(***************************************************************************)
hello_world(d) ==
    [db |-> d, resp |-> create_response([content |-> "hello world!"], 200, NoMsg)]

mirror(d, name) ==
    [db |-> d, resp |-> create_response([name |-> name], 200, NoMsg)]

\* users(), request.method == "POST"
users_post(d, form) ==
    IF /\ {"name", "age", "team"} \subseteq DOMAIN form
       /\ Strip(form.name) # <<>>
       /\ Strip(form.team) # <<>>
    THEN LET age == IntParse(form.age)
         IN  IF ~age.ok
             THEN [db |-> d, resp |-> create_response(None, 422, MsgCreateAge)]
             ELSE LET made == DbCreate(d, [name |-> form.name, age |-> age.val,
                                           team |-> form.team])
                  IN  [db |-> made.db,
                       resp |-> create_response([new_user |-> made.rec], 201,
                                                MsgCreated(made.rec.id))]
    ELSE [db |-> d, resp |-> create_response(None, 422, MsgCreateMissing)]

\* The listing as a slip would have it: the filter is named but not applied.
users_get_unfiltered(d, args) ==
    IF "team" \in DOMAIN args /\ args.team # <<>>
    THEN [db |-> d,
          resp |-> create_response([users |-> DbGet(d)], 200,
                                   MsgFiltered(args.team))]
    ELSE [db |-> d, resp |-> create_response([users |-> DbGet(d)], 200, NoMsg)]

\* users(), any other method: args is the query string
users_get(d, args) ==
    IF "team" \in DOMAIN args /\ args.team # <<>>
    THEN [db |-> d,
          resp |-> create_response([users |-> DbGetUsersByTeam(d, args.team)],
                                   200, MsgFiltered(args.team))]
    ELSE [db |-> d, resp |-> create_response([users |-> DbGet(d)], 200, NoMsg)]

users(d, method, form, args) ==
    IF method = "POST" THEN users_post(d, form) ELSE users_get(d, args)

\* The update as a slip would have it: a bad age is reported at the end, after
\* the team was handled.
user_by_id_put_late(d, id, form) ==
    LET d1 == IF "name" \in DOMAIN form /\ Strip(form.name) # <<>>
              THEN DbUpdateById(d, id, [name |-> form.name])
              ELSE d
    IN  IF "age" \notin DOMAIN form
        THEN [db |-> d1, resp |-> Raise("UnboundLocalError")]
        ELSE
        LET age == IntParse(form.age)
            has_age == Strip(form.age) # <<>>
            d2 == IF has_age /\ age.ok
                  THEN DbUpdateById(d1, id, [age |-> age.val])
                  ELSE d1
            d3 == IF "team" \in DOMAIN form /\ Strip(form.team) # <<>>
                  THEN DbUpdateById(d2, id, [team |-> form.team])
                  ELSE d2
        IN  IF has_age /\ ~age.ok
            THEN [db |-> d3, resp |-> create_response(None, 422, MsgUpdateAge)]
            ELSE [db |-> d3,
                  resp |-> create_response([user |-> DbGetById(d3, id)], 200,
                                           MsgUpdated(id))]

\* user_by_id(), request.method == "PUT", for the id of a stored user
user_by_id_put(d, id, form) ==
    LET d1 == IF "name" \in DOMAIN form /\ Strip(form.name) # <<>>
              THEN DbUpdateById(d, id, [name |-> form.name])
              ELSE d
    IN  IF "age" \notin DOMAIN form
        THEN \* line 95 reads the local age, which no line has bound
             [db |-> d1, resp |-> Raise("UnboundLocalError")]
        ELSE
        LET age == IntParse(form.age)
            has_age == Strip(form.age) # <<>>
        IN  IF has_age /\ ~age.ok
            THEN [db |-> d1, resp |-> create_response(None, 422, MsgUpdateAge)]
            ELSE
            LET d2 == IF has_age THEN DbUpdateById(d1, id, [age |-> age.val])
                      ELSE d1
                d3 == IF "team" \in DOMAIN form /\ Strip(form.team) # <<>>
                      THEN DbUpdateById(d2, id, [team |-> form.team])
                      ELSE d2
            IN  [db |-> d3,
                 resp |-> create_response([user |-> DbGetById(d3, id)], 200,
                                          MsgUpdated(id))]

\* The deletion as a slip would have it: answered, not done.
user_by_id_delete_kept(d, id) ==
    [db |-> d, resp |-> create_response(None, 200, MsgDeleted(id))]

\* user_by_id(), request.method == "DELETE", for the id of a stored user
user_by_id_delete(d, id) ==
    [db |-> DbDeleteById(d, id),
     resp |-> create_response(None, 200, MsgDeleted(id))]

\* user_by_id(), request.method == "GET", for the id of a stored user
user_by_id_get(d, id) ==
    [db |-> d, resp |-> create_response([user |-> DbGetById(d, id)], 200, NoMsg)]

\* The route as a slip would have it: only GET looks the user up first.
user_by_id_unchecked(d, method, path, form) ==
    LET id == IntParse(path)
    IN  IF ~id.ok
        THEN [db |-> d, resp |-> Raise("ValueError")]
        ELSE IF method = "GET" /\ DbGetById(d, id.val) = None
        THEN [db |-> d, resp |-> create_response(None, 404, MsgNoUser)]
        ELSE CASE method = "PUT" -> user_by_id_put(d, id.val, form)
               [] method = "DELETE" -> user_by_id_delete(d, id.val)
               [] OTHER -> user_by_id_get(d, id.val)

\* user_by_id(id): path is the <id> segment of the URL, a str
user_by_id(d, method, path, form) ==
    LET id == IntParse(path)
    IN  IF ~id.ok
        THEN [db |-> d, resp |-> Raise("ValueError")]
        ELSE IF DbGetById(d, id.val) = None
        THEN [db |-> d, resp |-> create_response(None, 404, MsgNoUser)]
        ELSE CASE method = "PUT" -> user_by_id_put(d, id.val, form)
               [] method = "DELETE" -> user_by_id_delete(d, id.val)
               [] OTHER -> user_by_id_get(d, id.val)

(***************************************************************************)
(* The form pages and their proxies.  The proxy calls the REST route over  *)
(* HTTP and hands back the text and the status of the answer.              *)
(***************************************************************************)
create_user(d) == [db |-> d, resp |-> RenderTemplate("create_user.html")]

\* The proxy as a slip would have it: the text is relayed, the status is not.
update_user_text_only(d, method, form) ==
    IF method # "POST"
    THEN [db |-> d, resp |-> RenderTemplate("update_user.html")]
    ELSE IF "id" \notin DOMAIN form
    THEN [db |-> d, resp |-> Abort(400)]
    ELSE IF form.id = <<>> \/ Strip(form.id) = <<>>
    THEN [db |-> d, resp |-> create_response(None, 404, MsgBlankUpdate)]
    ELSE IF ~({"name", "age", "team"} \subseteq DOMAIN form)
    THEN [db |-> d, resp |-> Abort(400)]
    ELSE LET url_rest == UrlQuote(form.id)
             r == user_by_id(d, "PUT", UrlUnquote(url_rest),
                             [name |-> form.name, age |-> form.age,
                              team |-> form.team])
         IN  [db |-> r.db, resp |-> [status |-> 200, body |-> r.resp.body]]

update_user(d, method, form) ==
    IF method # "POST"
    THEN [db |-> d, resp |-> RenderTemplate("update_user.html")]
    ELSE IF "id" \notin DOMAIN form
    THEN [db |-> d, resp |-> Abort(400)]
    ELSE IF form.id = <<>> \/ Strip(form.id) = <<>>
    THEN [db |-> d, resp |-> create_response(None, 404, MsgBlankUpdate)]
    ELSE IF ~({"name", "age", "team"} \subseteq DOMAIN form)
    THEN [db |-> d, resp |-> Abort(400)]
    ELSE LET url_rest == UrlQuote(form.id)
             r == user_by_id(d, "PUT", UrlUnquote(url_rest),
                             [name |-> form.name, age |-> form.age,
                              team |-> form.team])
         IN  [db |-> r.db,
              resp |-> [status |-> r.resp.status, body |-> r.resp.body]]

delete_user(d, method, form) ==
    IF method # "POST"
    THEN [db |-> d, resp |-> RenderTemplate("delete_user.html")]
    ELSE IF "id" \notin DOMAIN form
    THEN [db |-> d, resp |-> Abort(400)]
    ELSE IF form.id = <<>> \/ Strip(form.id) = <<>>
    THEN [db |-> d, resp |-> create_response(None, 404, MsgBlankDelete)]
    ELSE LET url_rest == UrlQuote(form.id)
             r == user_by_id(d, "DELETE", UrlUnquote(url_rest), <<>>)
         IN  [db |-> r.db,
              resp |-> [status |-> r.resp.status, body |-> r.resp.body]]

(***************************************************************************)
(* Requests                                                                *)
(***************************************************************************)
NameVals == {<<"a">>, <<"b">>, <<" ">>}
AgeVals == {<<" ", "7">>, <<"x">>, <<" ">>}
TeamVals == {<<"r">>, <<"g">>, <<>>}

NoField == [k \in {} |-> <<>>]

\* Every form over name, age and team: each field absent or one of its values.
Forms ==
    {n @@ a @@ t :
        n \in {NoField} \cup {[name |-> v] : v \in NameVals},
        a \in {NoField} \cup {[age |-> v] : v \in AgeVals},
        t \in {NoField} \cup {[team |-> v] : v \in TeamVals}}

\* The <id> segments of the URL: the decimal of an id, and one that is no number.
PathIds == {IntToStr(i) : i \in 1..MaxId} \cup {<<"x">>}

\* The id field of the proxy forms: absent, blank, or a URL segment.
IdFields == {NoField} \cup {[id |-> v] : v \in PathIds \cup {<<" ">>}}

Queries == {NoField} \cup {[team |-> v] : v \in TeamVals}

(***************************************************************************)
(* State                                                                   *)
(***************************************************************************)
VARIABLES
    db,         \* the mock store
    resp,       \* the response to the last request
    endpoint,   \* the view function that served it
    assigned,   \* history: the ids of the 201 responses, in order
    deleted     \* history: the ids whose deletion was answered 200

vars == <<db, resp, endpoint, assigned, deleted>>

IsEnvelope(r) == DOMAIN r.body = {"code", "success", "message", "result"}

IsCreated(r) ==
    IsEnvelope(r) /\ r.status = 201 /\ "new_user" \in DOMAIN r.body.result

IsDeleted(r) ==
    /\ IsEnvelope(r)
    /\ r.status = 200
    /\ Len(r.body.message) = 3
    /\ r.body.message[3] = " has successfully been deleted"

Init ==
    /\ db = EmptyDb
    /\ resp = [status |-> 0, body |-> None]
    /\ endpoint = "none"
    /\ assigned = <<>>
    /\ deleted = {}

\* The request is served: the handler's store and response become the state.
Serve(ep, out) ==
    /\ out.db.next_id <= MaxId + 1
    /\ db' = out.db
    /\ resp' = out.resp
    /\ endpoint' = ep
    /\ assigned' = IF IsCreated(out.resp)
                   THEN Append(assigned, out.resp.body.result.new_user.id)
                   ELSE assigned
    /\ deleted' = IF IsDeleted(out.resp)
                  THEN deleted \cup {out.resp.body.message[2]}
                  ELSE deleted

HelloWorld == Serve("hello_world", hello_world(db))

Mirror == \E name \in {<<"a">>, <<"x">>} : Serve("mirror", mirror(db, name))

UsersPost == \E form \in Forms : Serve("users", users(db, "POST", form, NoField))

UsersGet == \E args \in Queries : Serve("users", users(db, "GET", NoField, args))

UserByIdGet ==
    \E path \in PathIds : Serve("user_by_id", user_by_id(db, "GET", path, NoField))

UserByIdPut ==
    \E path \in PathIds, form \in Forms :
        Serve("user_by_id", user_by_id(db, "PUT", path, form))

UserByIdDelete ==
    \E path \in PathIds :
        Serve("user_by_id", user_by_id(db, "DELETE", path, NoField))

CreateUser == Serve("create_user", create_user(db))

UpdateUserGet == Serve("update_user", update_user(db, "GET", NoField))

UpdateUserPost ==
    \E i \in IdFields, form \in Forms :
        Serve("update_user", update_user(db, "POST", i @@ form))

DeleteUserGet == Serve("delete_user", delete_user(db, "GET", NoField))

DeleteUserPost ==
    \E i \in IdFields : Serve("delete_user", delete_user(db, "POST", i))

Next ==
    \/ HelloWorld
    \/ Mirror
    \/ UsersPost
    \/ UsersGet
    \/ UserByIdGet
    \/ UserByIdPut
    \/ UserByIdDelete
    \/ CreateUser
    \/ UpdateUserGet
    \/ UpdateUserPost
    \/ DeleteUserGet
    \/ DeleteUserPost

Spec == Init /\ [][Next]_vars

(***************************************************************************)
(* The vocabulary of the properties.  It is stated on the inputs directly, *)
(* not through the operators the handlers use.                             *)
(***************************************************************************)
\* Blank after trimming: nothing but spaces.
IsBlank(s) == \A i \in 1..Len(s) : s[i] = " "

\* The integer each parseable age of AgeVals denotes.
AgeNumber == (<<" ", "7">> :> 7)

HasAll(form) == {"name", "age", "team"} \subseteq DOMAIN form

ValidCreate(form) ==
    /\ HasAll(form)
    /\ ~IsBlank(form.name)
    /\ ~IsBlank(form.team)
    /\ form.age \in DOMAIN AgeNumber

\* d2 is d with exactly one record appended.
OneAdded(d, d2) ==
    /\ Len(d2.users) = Len(d.users) + 1
    /\ \A i \in 1..Len(d.users) : d2.users[i] = d.users[i]

Is404(r) ==
    /\ IsEnvelope(r)
    /\ r.status = 404
    /\ r.body.message = MsgNoUser
    /\ r.body.result = None

(***************************************************************************)
(* C1: every POST /users whose form has name, age and team, name and team  *)
(* non-blank and age an integer, is answered 201 with a positive integer   *)
(* id, adds exactly one record, and a GET /users/{id} issued next returns  *)
(* 200 with the same name and team and the age as the parsed integer.      *)
(***************************************************************************)
C1_ValidCreate ==
    \A form \in Forms :
        ValidCreate(form) =>
            LET out == users(db, "POST", form, NoField)
                r == out.resp
            IN  /\ IsCreated(r)
                /\ r.body.code = 201
                /\ r.body.result.new_user.id \in Nat \ {0}
                /\ OneAdded(db, out.db)
                /\ LET g == user_by_id(out.db, "GET",
                                       IntToStr(r.body.result.new_user.id),
                                       NoField).resp
                   IN  /\ IsEnvelope(g)
                       /\ g.status = 200
                       /\ "user" \in DOMAIN g.body.result
                       /\ g.body.result.user.id = r.body.result.new_user.id
                       /\ g.body.result.user.name = form.name
                       /\ g.body.result.user.team = form.team
                       /\ g.body.result.user.age = AgeNumber[form.age]

\* A user has just been created, and a second one is in the store with it.
C1_Witness ==
    /\ endpoint = "users"
    /\ IsCreated(resp)
    /\ Len(db.users) = 2
    /\ db.users[2] = resp.body.result.new_user
    /\ resp.body.result.new_user.age = 7

(***************************************************************************)
(* C2: in any sequence of create, update and delete requests the id of a   *)
(* new user is strictly greater than every id assigned before it; no id is *)
(* used twice, also after the record that had it was deleted.              *)
(***************************************************************************)
C2_IdsIncrease ==
    /\ \A i, j \in 1..Len(assigned) : i < j => assigned[i] < assigned[j]
    /\ \A form \in Forms :
        ValidCreate(form) =>
            LET id == users(db, "POST", form, NoField).resp.body.result.new_user.id
            IN  /\ \A i \in 1..Len(assigned) : assigned[i] < id
                /\ id \notin Ids(db) \cup deleted

\* A user is created after an earlier user was deleted.
C2_Witness ==
    /\ IsCreated(resp)
    /\ Len(assigned) >= 2
    /\ \E i \in deleted : i < resp.body.result.new_user.id

(***************************************************************************)
(* C3: a POST /users that fails validation is answered 422 and leaves the  *)
(* store as it was: "age is not a number" when the three fields are there, *)
(* name and team are non-blank and age is no integer; "are missing" when a *)
(* field is missing or name or team is blank.                              *)
(***************************************************************************)
C3_InvalidCreate ==
    \A form \in Forms :
        LET out == users(db, "POST", form, NoField)
            r == out.resp
            bad_age == /\ HasAll(form)
                       /\ ~IsBlank(form.name)
                       /\ ~IsBlank(form.team)
                       /\ form.age \notin DOMAIN AgeNumber
            missing == \/ ~HasAll(form)
                       \/ IsBlank(form.name)
                       \/ IsBlank(form.team)
        IN  /\ bad_age => /\ IsEnvelope(r)
                          /\ r.status = 422
                          /\ r.body.code = 422
                          /\ r.body.message = MsgCreateAge
                          /\ out.db = db
            /\ missing => /\ IsEnvelope(r)
                          /\ r.status = 422
                          /\ r.body.code = 422
                          /\ r.body.message = MsgCreateMissing
                          /\ out.db = db

\* A creation was refused for its age while the store holds a user.
C3_Witness ==
    /\ endpoint = "users"
    /\ resp.status = 422
    /\ resp.body.message = MsgCreateAge
    /\ db.users # <<>>

(***************************************************************************)
(* C4: a PUT /users/{id} on a stored user whose form carries only a        *)
(* non-blank team returns 200 with the merged record: the team is the new  *)
(* one, name and age are as before, and the absent age raises no error.    *)
(***************************************************************************)
C4_TeamOnlyPut ==
    \A i \in 1..Len(db.users) :
        \A t \in TeamVals :
            ~IsBlank(t) =>
                LET u == db.users[i]
                    out == user_by_id(db, "PUT", IntToStr(u.id), [team |-> t])
                    merged == [id |-> u.id, name |-> u.name, age |-> u.age,
                               team |-> t]
                IN  /\ IsEnvelope(out.resp)
                    /\ out.resp.status = 200
                    /\ out.resp.body.result = [user |-> merged]
                    /\ out.db.users[i] = merged

(***************************************************************************)
(* C5: a DELETE /users/{id} on a stored user returns 200 and removes that  *)
(* record and no other; every later GET of the id returns 404, and so does *)
(* a second DELETE of it.                                                  *)
(***************************************************************************)
C5_DeleteRemoves ==
    /\ \A i \in 1..Len(db.users) :
        LET u == db.users[i]
            out == user_by_id(db, "DELETE", IntToStr(u.id), NoField)
        IN  /\ IsEnvelope(out.resp)
            /\ out.resp.status = 200
            /\ out.resp.body.result = None
            /\ out.resp.body.message = MsgDeleted(u.id)
            /\ Len(out.db.users) = Len(db.users) - 1
            /\ \A j \in 1..Len(db.users) :
                 j # i => out.db.users[IF j < i THEN j ELSE j - 1] = db.users[j]
            /\ Is404(user_by_id(out.db, "GET", IntToStr(u.id), NoField).resp)
            /\ Is404(user_by_id(out.db, "DELETE", IntToStr(u.id), NoField).resp)
    /\ \A id \in deleted :
        /\ Is404(user_by_id(db, "GET", IntToStr(id), NoField).resp)
        /\ Is404(user_by_id(db, "DELETE", IntToStr(id), NoField).resp)
        /\ user_by_id(db, "DELETE", IntToStr(id), NoField).db = db

\* A user has been deleted, another one is left, and a later one was created.
C5_Witness ==
    /\ deleted # {}
    /\ db.users # <<>>
    /\ \E id \in deleted : \E i \in 1..Len(db.users) : id < db.users[i].id

(***************************************************************************)
(* C6: whatever the store holds, GET, PUT and DELETE on /users/{id} for an *)
(* id that is not the id of a stored user each return 404 with "There is   *)
(* no user associated with this id!" and leave the store as it was.        *)
(***************************************************************************)
\* The decimals of the ids asked for: assigned or not, zero and negative too.
IdProbes == (0 - 1)..(MaxId + 1)

C6_UnknownId ==
    \A id \in IdProbes :
        id \notin Ids(db) =>
            /\ \A method \in {"GET", "DELETE"} :
                LET out == user_by_id(db, method, IntToStr(id), NoField)
                IN  Is404(out.resp) /\ out.db = db
            /\ \A form \in Forms :
                LET out == user_by_id(db, "PUT", IntToStr(id), form)
                IN  Is404(out.resp) /\ out.db = db

\* An unknown id was asked for while the store holds a user.
C6_Witness ==
    /\ endpoint = "user_by_id"
    /\ Is404(resp)
    /\ db.users # <<>>

(***************************************************************************)
(* C7: whatever the store holds, GET /users?team=T for a non-empty T       *)
(* returns 200 with the stored users whose team is T, in insertion order,  *)
(* and no others, and leaves the store as it was; GET /users without team  *)
(* returns every stored user.                                              *)
(***************************************************************************)
\* The teams asked for: those of the forms, a blank one and one nobody has.
TeamProbes == (TeamVals \ {<<>>}) \cup {<<" ">>, <<"z">>}

\* sub is the subsequence of seq of the users whose team is t.
IsTeamOf(sub, seq, t) ==
    /\ Len(sub) = Cardinality({i \in 1..Len(seq) : seq[i].team = t})
    /\ \A k \in 1..Len(sub) : sub[k].team = t
    /\ \E f \in [1..Len(sub) -> 1..Len(seq)] :
        /\ \A k \in 1..Len(sub) : seq[f[k]] = sub[k]
        /\ \A k, l \in 1..Len(sub) : k < l => f[k] < f[l]

C7_TeamFilter ==
    /\ \A t \in TeamProbes :
        LET out == users(db, "GET", NoField, [team |-> t])
        IN  /\ IsEnvelope(out.resp)
            /\ out.resp.status = 200
            /\ DOMAIN out.resp.body.result = {"users"}
            /\ IsTeamOf(out.resp.body.result.users, db.users, t)
            /\ out.db = db
    /\ LET out == users(db, "GET", NoField, NoField)
       IN  /\ IsEnvelope(out.resp)
           /\ out.resp.status = 200
           /\ out.resp.body.result = [users |-> db.users]
           /\ out.db = db

\* A filter has just returned some of the stored users and left one out.
C7_Witness ==
    /\ endpoint = "users"
    /\ IsEnvelope(resp)
    /\ Len(resp.body.message) = 2
    /\ resp.body.message[1] = "Users filtered by team "
    /\ resp.body.result.users # <<>>
    /\ Len(resp.body.result.users) < Len(db.users)

(***************************************************************************)
(* C8: every response of a REST route is the envelope, its code the HTTP   *)
(* status and its success true exactly for 200 <= status < 300; no request *)
(* ends in an unhandled exception or a bare error page.                    *)
(***************************************************************************)
RestEndpoints == {"hello_world", "mirror", "users", "user_by_id"}

C8_AlwaysEnvelope ==
    endpoint \in RestEndpoints =>
        /\ IsEnvelope(resp)
        /\ resp.body.code = resp.status
        /\ resp.body.success = (200 <= resp.status /\ resp.status < 300)

(***************************************************************************)
(* C9: a POST /users/update_user with a non-blank id and the fields name,  *)
(* age and team has the status, the body and the effect on the store of a  *)
(* PUT /users/{id} with those fields, its 404 and 422 included; a POST     *)
(* /users/delete_user with a non-blank id those of a DELETE /users/{id};   *)
(* with a blank id either returns 404 and leaves the store as it was.      *)
(***************************************************************************)
\* The ids typed into the forms: URL segments, and one with a space to quote.
IdProbesTyped == PathIds \cup {<<" ", "1">>, <<"1", " ">>}

SameOutcome(a, b) ==
    /\ a.resp.status = b.resp.status
    /\ a.resp.body = b.resp.body
    /\ a.db = b.db

C9_ProxyEqualsRest ==
    /\ \A id \in IdProbesTyped :
        /\ \A form \in Forms :
            HasAll(form) =>
                SameOutcome(update_user(db, "POST", [id |-> id] @@ form),
                            user_by_id(db, "PUT", id, form))
        /\ SameOutcome(delete_user(db, "POST", [id |-> id]),
                       user_by_id(db, "DELETE", id, NoField))
    /\ \A id \in {<<>>, <<" ">>, <<" ", " ">>} :
        /\ \A form \in Forms :
            LET out == update_user(db, "POST", [id |-> id] @@ form)
            IN  out.resp.status = 404 /\ out.db = db
        /\ LET out == delete_user(db, "POST", [id |-> id])
           IN  out.resp.status = 404 /\ out.db = db

\* The update form has just changed a stored user through the REST route.
C9_Witness ==
    /\ endpoint = "update_user"
    /\ IsEnvelope(resp)
    /\ resp.status = 200
    /\ "user" \in DOMAIN resp.body.result
    /\ \E i \in 1..Len(db.users) :
        db.users[i] = resp.body.result.user /\ db.users[i].name = <<"b">>
    /\ deleted # {}

(***************************************************************************)
(* C10, as stated: a PUT /users/{id} on a stored user whose age is there,  *)
(* non-blank and no integer returns 422 "Cannot update user because age is *)
(* not a number" and leaves the stored age as it was, while a valid name   *)
(* and a valid team of the same request are both applied to the record.    *)
(***************************************************************************)
BadAge(form) ==
    /\ "age" \in DOMAIN form
    /\ ~IsBlank(form.age)
    /\ form.age \notin DOMAIN AgeNumber

GoodField(form, k) == k \in DOMAIN form /\ ~IsBlank(form[k])

C10_OtherFieldsApplied ==
    \A i \in 1..Len(db.users) :
        \A form \in Forms :
            BadAge(form) =>
                LET u == db.users[i]
                    out == user_by_id(db, "PUT", IntToStr(u.id), form)
                    v == out.db.users[i]
                IN  /\ IsEnvelope(out.resp)
                    /\ out.resp.status = 422
                    /\ out.resp.body.message = MsgUpdateAge
                    /\ v.age = u.age
                    /\ GoodField(form, "name") => v.name = form.name
                    /\ GoodField(form, "team") => v.team = form.team

(***************************************************************************)
(* C10, amended: such a PUT returns 422 with that message and leaves the   *)
(* stored age as it was; the failed check ends the request: a valid name,  *)
(* handled before the age, has been applied, and the team, handled after   *)
(* it, has not; no other record changes.                                   *)
(***************************************************************************)
C10_NameAppliedTeamNot ==
    \A i \in 1..Len(db.users) :
        \A form \in Forms :
            BadAge(form) =>
                LET u == db.users[i]
                    out == user_by_id(db, "PUT", IntToStr(u.id), form)
                IN  /\ IsEnvelope(out.resp)
                    /\ out.resp.status = 422
                    /\ out.resp.body.message = MsgUpdateAge
                    /\ out.resp.body.result = None
                    /\ Len(out.db.users) = Len(db.users)
                    /\ \A j \in 1..Len(db.users) : j # i =>
                         out.db.users[j] = db.users[j]
                    /\ out.db.users[i] =
                         [id |-> u.id,
                          name |-> IF GoodField(form, "name") THEN form.name
                                   ELSE u.name,
                          age |-> u.age,
                          team |-> u.team]

\* An update was refused for its age after it had renamed the user.
C10_Witness ==
    /\ endpoint = "user_by_id"
    /\ IsEnvelope(resp)
    /\ resp.status = 422
    /\ resp.body.message = MsgUpdateAge
    /\ \E i \in 1..Len(db.users) : db.users[i].name = <<"b">>
    /\ \E i \in 1..Len(db.users) : db.users[i].name = <<"a">>

====
